---------------------------- MODULE Spec2Model ----------------------------
(***************************************************************************)
(* Model of calculate_reimbursement.py: the reimbursement engine           *)
(* (ReimbursementCalculator.__init__, ReimbursementCalculator.calculate)   *)
(* and the command line in front of it (main).                             *)
(*                                                                         *)
(* Numbers.  The program computes with Python floats.  The model computes  *)
(* the same expressions in exact decimal fixed point: an amount is a       *)
(* number of 10^-16 dollars, held in limbs of four decimal digits because  *)
(* the values exceed the range of the model checker's integers.  The one   *)
(* place where the exact value and the double can part is a value that is  *)
(* exactly half a cent at round(amount, 2): there the double lies just     *)
(* above or just below the half cent and round() follows the double.  The  *)
(* model leaves that direction open: fp_half_up is either value, and keeps *)
(* it through a behaviour, the direction being a function of the operands. *)
(* On every request of the specifications below the value the program      *)
(* returns is the value the model returns for one of the two directions.   *)
(* Before round() the double and the exact value differ in the last bits   *)
(* of the double; where a property is about those bits, calculate is       *)
(* computed on doubles (FloatAmount), bit for bit as the interpreter does. *)
(*                                                                         *)
(* Units of the inputs: days is an integer, miles is in tenths of a mile,  *)
(* receipts is in mills (thousandths of a dollar).  Results are in cents.  *)
(***************************************************************************)
EXTENDS Integers, Sequences, FiniteSets, TLC

(***************************************************************************)
(* Exact decimal arithmetic.  A number is a tuple of six limbs, least      *)
(* significant first; limb i weighs LimbBase^(i-1) units of 10^-16 dollar. *)
(* Limbs below the top one lie in 0..LimbBase-1; the top limb is signed    *)
(* and carries the sign of the number (floor representation).              *)
(***************************************************************************)
LimbBase == 10 ^ 4
Limb == 1..6

RECURSIVE NormFrom(_, _, _)
NormFrom(s, i, carry) ==
    IF i = 6
    THEN <<s[i] + carry>>
    ELSE <<(s[i] + carry) % LimbBase>>
         \o NormFrom(s, i + 1, (s[i] + carry) \div LimbBase)

Norm(s) == NormFrom(s, 1, 0)

\* n units of weight LimbBase^(pos-1)
Num(n, pos) == Norm([i \in Limb |-> IF i = pos THEN n ELSE 0])

Zero == Num(0, 1)
Add(a, b) == Norm([i \in Limb |-> a[i] + b[i]])
MulSmall(a, k) == Norm([i \in Limb |-> a[i] * k])
Neg(a) == MulSmall(a, -1)
Sub(a, b) == Add(a, Neg(b))

\* floor(a / d) for a small positive d
RECURSIVE DivFrom(_, _, _, _)
DivFrom(a, d, i, rem) ==
    IF i = 0 THEN <<>>
    ELSE DivFrom(a, d, i - 1, (rem * LimbBase + a[i]) % d)
         \o <<(rem * LimbBase + a[i]) \div d>>

DivSmall(a, d) == DivFrom(a, d, 6, 0)

\* a * num / den, a product with a decimal constant num/den
MulDec(a, num, den) == DivSmall(MulSmall(a, num), den)

IsNeg(a) == a[6] < 0
IsZero(a) == \A i \in Limb : a[i] = 0
Less(a, b) == IsNeg(Sub(a, b))
LessEq(a, b) == ~Less(b, a)

\* conversions of the inputs and of the constants to the common unit
Dollars(n) == Num(n, 5)
Cents(n) == MulSmall(Num(n, 4), 100)
Tenths(n) == MulSmall(Num(n, 4), 1000)
Mills(n) == MulSmall(Num(n, 4), 10)

\* n units of 10^-nd dollars (nd decimal digits, 0 <= nd <= 4)
UnitAt(n, nd) == MulSmall(Num(n, 4), 10 ^ (4 - nd))

\* floor(a * 10^nd): the number cut after nd decimal digits, as an integer
FloorAt(a, nd) ==
    (a[6] * LimbBase + a[5]) * (10 ^ nd) + (a[4] \div (10 ^ (4 - nd)))

\* what the cut leaves over: 0 <= RestAt(a, nd) < 10^-nd
RestAt(a, nd) == Sub(a, UnitAt(FloorAt(a, nd), nd))

\* round(a, nd) of Python: the nearest multiple of 10^-nd.  halfUp settles
\* an exact decimal half, where the double decides (see the head comment).
Round(a, nd, halfUp) ==
    LET f == FloorAt(a, nd)
        rest == RestAt(a, nd)
        half == UnitAt(5, nd + 1)
    IN  IF Less(rest, half) THEN UnitAt(f, nd)
        ELSE IF Less(half, rest) THEN UnitAt(f + 1, nd)
        ELSE IF halfUp THEN UnitAt(f + 1, nd) ELSE UnitAt(f, nd)


(***************************************************************************)
(* The statements of calculate as operators on values.                     *)
(***************************************************************************)

\* __init__: the attributes of a new calculator.  intercept and coef_days
\* are in cents, coef_miles and coef_receipts in 10^-4, the factor in 10^-3.
NewCalculator ==
    [intercept |-> 26671,
     coef_days |-> 5005,
     coef_miles |-> 4456,
     coef_receipts |-> 3829,
     rounding_bug_factor |-> 457]

\* a slip: the cents cut off instead of rounded
FormatReceiptsTruncated(r) ==
    LET a == (IF r < 0 THEN -r ELSE r) \div 10
    IN  [neg |-> r < 0, whole |-> a \div 100, frac |-> a % 100]

\* f"{receipts:.2f}": the nearest number of cents, written as sign, whole
\* dollars and two cent digits.  A half cent that a double holds exactly
\* (.125, .375, .625, .875) goes to the even cent; the inputs hold no other.
FormatReceipts(r) ==
    LET q == r \div 10
        m == r % 10
        c == IF m < 5 THEN q
             ELSE IF m > 5 THEN q + 1
             ELSE IF q % 2 = 0 THEN q ELSE q + 1
        a == IF c < 0 THEN -c ELSE c
    IN  [neg |-> r < 0, whole |-> a \div 100, frac |-> a % 100]

\* receipt_str.endswith('.' + two digits)
EndsWith(str, cc) == str.frac = cc

\* a slip: the test for .99 alone
HasRoundingBugNinetyNine(r) == EndsWith(FormatReceipts(r), 99)

\* has_rounding_bug
HasRoundingBug(r) ==
    EndsWith(FormatReceipts(r), 49) \/ EndsWith(FormatReceipts(r), 99)

\* a slip: receipts above $1800 at the rate of the miles, 0.25
CappedReceiptsQuarter(r) ==
    IF r > 1800000
    THEN Add(Dollars(1800), MulDec(Sub(Mills(r), Dollars(1800)), 25, 100))
    ELSE Mills(r)

\* capped_receipts: receipts above $1800 count at 0.15
CappedReceipts(r) ==
    IF r > 1800000
    THEN Add(Dollars(1800), MulDec(Sub(Mills(r), Dollars(1800)), 15, 100))
    ELSE Mills(r)

\* a slip: the cap on miles left out
CappedMilesUncapped(m) == Tenths(m)

\* capped_miles: miles above 800 count at 0.25
CappedMiles(m) ==
    IF m > 8000
    THEN Add(Dollars(800), MulDec(Sub(Tenths(m), Dollars(800)), 25, 100))
    ELSE Tenths(m)

\* The integers of the model end below TooLarge.  An int of the program
\* that no double holds (2^1024 and above: a literal of 310 digits, say) is
\* kept as the one value TooLarge.
TooLarge == 2 ^ 30

\* coef_days * days converts the int days to a double; an int that no
\* double holds leaves the product with OverflowError
IntToFloat(n) == [err |-> n >= TooLarge \/ n <= -TooLarge, val |-> n]

\* intercept + coef_days * days + coef_miles * capped_miles
\*           + coef_receipts * capped_receipts
LinearAmount(c, d, cm, cr) ==
    Add(Add(Add(Cents(c.intercept),
                MulDec(Dollars(d), c.coef_days, 100)),
            MulDec(cm, c.coef_miles, 10000)),
        MulDec(cr, c.coef_receipts, 10000))

\* a slip: the factor a tenth of its value, 0.0457
TimesBugFactorTenth(c, a) == MulDec(a, c.rounding_bug_factor, 10000)

\* amount *= self.rounding_bug_factor
TimesBugFactor(c, a) == MulDec(a, c.rounding_bug_factor, 1000)

\* the conditions of the adjustments, on the arguments as passed
IsFiveDay(d) == d = 5
IsLongHighMileage(d, m) == d >= 12 /\ m >= 10000
IsShortMinimal(d, m, r) == d <= 2 /\ m < 1000 /\ r < 50000
IsMidHigh(d, m, r) == 7 <= d /\ d <= 8 /\ m >= 10000 /\ r >= 1000000
IsTwoWeekHigh(d, m, r) == 13 <= d /\ d <= 14 /\ m >= 10000 /\ r >= 1000000

\* n / d of Python: the quotient as a fraction of tenths of a mile, or
\* ZeroDivisionError
Divide(n, d) ==
    IF d = 0 THEN [err |-> TRUE, num |-> 0, den |-> 1]
    ELSE [err |-> FALSE, num |-> n, den |-> d]

\* a slip: the miles of the whole trip taken for the miles of a day
MilesPerDayUndivided(d, m) == Divide(m, 1)

\* a slip: the division without its guard
MilesPerDayUnguarded(d, m) == Divide(m, d)

\* miles_per_day = miles / days if days > 0 else miles
MilesPerDay(d, m) == IF d > 0 THEN Divide(m, d) ELSE Divide(m, 1)

\* k <= q and q <= k for a whole number k of miles and a quotient q
AtLeast(q, k) ==
    IF q.den > 0 THEN k * 10 * q.den <= q.num ELSE k * 10 * q.den >= q.num
AtMost(q, k) ==
    IF q.den > 0 THEN q.num <= k * 10 * q.den ELSE q.num >= k * 10 * q.den

\* 180 <= miles_per_day <= 220
IsEfficient(q) == AtLeast(q, 180) /\ AtMost(q, 220)

\* a slip: the amount cut to the cent instead of rounded
RoundAmountTruncated(a, halfUp) == UnitAt(FloorAt(a, 2), 2)

\* result = round(amount, 2)
RoundAmount(a, halfUp) == Round(a, 2, halfUp)

\* a slip: the clamp left out
NonNegativeMissing(res) == res

\* max(0.0, result)
NonNegative(res) == IF Less(Zero, res) THEN res ELSE Zero

(***************************************************************************)
(* Double arithmetic.  The program's floats are IEEE doubles.  A double    *)
(* that is not negative is m * 2^e with 2^52 <= m < 2^53, or m = 0; m is a *)
(* natural number in eight limbs of fourteen bits, least significant       *)
(* first.  Every operation gives the double nearest to the exact result,   *)
(* a tie going to the even m.                                              *)
(***************************************************************************)
LimbBits == 14
BigBase == 2 ^ LimbBits
BigLimbs == 8
BigLimb == 1..BigLimbs

RECURSIVE BigNormFrom(_, _, _)
BigNormFrom(s, i, carry) ==
    IF i = BigLimbs
    THEN <<s[i] + carry>>
    ELSE <<(s[i] + carry) % BigBase>>
         \o BigNormFrom(s, i + 1, (s[i] + carry) \div BigBase)

BigNorm(s) == BigNormFrom(s, 1, 0)

\* limb i of a, 0 outside the limbs
LimbAt(a, i) == IF i \in BigLimb THEN a[i] ELSE 0

\* the natural number n
Big(n) == BigNorm([i \in BigLimb |-> IF i = 1 THEN n ELSE 0])

BigAdd(a, b) == BigNorm([i \in BigLimb |-> a[i] + b[i]])
BigSub(a, b) == BigNorm([i \in BigLimb |-> a[i] - b[i]])
BigMulSmall(a, k) == BigNorm([i \in BigLimb |-> a[i] * k])

\* a * b, both below 2^56
BigMul(a, b) ==
    BigNorm([k \in BigLimb |->
                a[1] * LimbAt(b, k) + a[2] * LimbAt(b, k - 1)
                + a[3] * LimbAt(b, k - 2) + a[4] * LimbAt(b, k - 3)])

\* floor(a / d) and a mod d for a small positive d: the limbs of the
\* quotient from the top one down, then in their places
RECURSIVE BigDivFrom(_, _, _, _)
BigDivFrom(a, d, i, rem) ==
    IF i = 0 THEN <<rem>>
    ELSE <<(rem * BigBase + a[i]) \div d>>
         \o BigDivFrom(a, d, i - 1, (rem * BigBase + a[i]) % d)

BigDivSmall(a, d) ==
    LET down == BigDivFrom(a, d, BigLimbs, 0)
    IN  BigNorm([i \in BigLimb |-> down[BigLimbs + 1 - i]])

BigRemSmall(a, d) == BigDivFrom(a, d, BigLimbs, 0)[BigLimbs + 1]

BigIsZero(a) == \A i \in BigLimb : a[i] = 0
BigOdd(a) == a[1] % 2 = 1

\* the number of bits of a: 0 for 0
BigBits(a) ==
    IF BigIsZero(a) THEN 0
    ELSE LET top == CHOOSE i \in BigLimb :
                        a[i] # 0 /\ \A j \in BigLimb : j > i => a[j] = 0
             bits == CHOOSE k \in 1..LimbBits :
                        2 ^ (k - 1) <= a[top] /\ a[top] < 2 ^ k
         IN  (top - 1) * LimbBits + bits

\* a * 2^k, and floor(a / 2^k)
BigShiftLeft(a, k) ==
    LET q == k \div LimbBits
        r == k % LimbBits
    IN  BigNorm([i \in BigLimb |->
                    ((LimbAt(a, i - q) * (2 ^ r)) % BigBase)
                    + (LimbAt(a, i - q - 1) \div (2 ^ (LimbBits - r)))])

BigShiftRight(a, k) ==
    LET q == k \div LimbBits
        r == k % LimbBits
    IN  BigNorm([i \in BigLimb |->
                    (LimbAt(a, i + q) \div (2 ^ r))
                    + (LimbAt(a, i + q + 1) % (2 ^ r)) * (2 ^ (LimbBits - r))])

\* a mod 2^k is not 0
BigLowBits(a, k) ==
    \/ \E i \in BigLimb : i <= (k \div LimbBits) /\ a[i] # 0
    \/ LimbAt(a, (k \div LimbBits) + 1) % (2 ^ (k % LimbBits)) # 0

\* the integer nearest to (n + rest) / 2^k, 0 <= rest < 1, a half going to
\* the even integer; sticky says that rest is not 0
BigRoundShift(n, k, sticky) ==
    IF k = 0 THEN n
    ELSE LET cut == BigShiftRight(n, k - 1)
             q == BigShiftRight(cut, 1)
         IN  IF BigOdd(cut) /\ (sticky \/ BigLowBits(n, k - 1) \/ BigOdd(q))
             THEN BigAdd(q, Big(1))
             ELSE q

MantissaBits == 53

\* the double nearest to (n + rest) * 2^e, 0 <= rest < 1; sticky says that
\* rest is not 0 (then n has more than 53 bits)
FNormal(n, e, sticky) ==
    LET bits == BigBits(n)
        k == bits - MantissaBits
        q == BigRoundShift(n, k, sticky)
    IN  IF bits = 0 THEN [m |-> n, e |-> 0]
        ELSE IF k <= 0 THEN [m |-> BigShiftLeft(n, -k), e |-> e + k]
        ELSE IF BigBits(q) > MantissaBits
        THEN [m |-> BigShiftRight(q, 1), e |-> e + k + 1]
        ELSE [m |-> q, e |-> e + k]

\* float(n) of an int 0 <= n < 2^31
FromInt(n) == FNormal(Big(n), 0, FALSE)

\* the double of the decimal literal n / den (den a power of ten up to
\* 10^4, n = 0 or n / den >= 2^-16)
GuardBits == 5 * LimbBits
FromDecimal(n, den) ==
    LET scaled == BigShiftLeft(Big(n), GuardBits)
    IN  FNormal(BigDivSmall(scaled, den), -GuardBits,
                BigRemSmall(scaled, den) # 0)

\* x * y
FMul(x, y) ==
    IF BigIsZero(x.m) THEN x
    ELSE IF BigIsZero(y.m) THEN y
    ELSE FNormal(BigMul(x.m, y.m), x.e + y.e, FALSE)

\* x + y, the exponents less than 56 apart
FAdd(x, y) ==
    IF BigIsZero(x.m) THEN y
    ELSE IF BigIsZero(y.m) THEN x
    ELSE LET lo == IF x.e < y.e THEN x.e ELSE y.e
         IN  FNormal(BigAdd(BigShiftLeft(x.m, x.e - lo),
                            BigShiftLeft(y.m, y.e - lo)), lo, FALSE)

\* x - y for x >= y, the exponents less than 56 apart
FSub(x, y) ==
    IF BigIsZero(y.m) \/ BigIsZero(x.m) THEN x
    ELSE LET lo == IF x.e < y.e THEN x.e ELSE y.e
         IN  FNormal(BigSub(BigShiftLeft(x.m, x.e - lo),
                            BigShiftLeft(y.m, y.e - lo)), lo, FALSE)

\* a natural number below 2^28 as an integer
BigToInt(a) == a[2] * BigBase + a[1]

\* round(x, 2) of a double 0 <= x < 10^6, in cents: Python rounds the
\* exact value of the double
FRound2(x) ==
    IF x.e >= 0 THEN BigToInt(BigShiftLeft(BigMulSmall(x.m, 100), x.e))
    ELSE BigToInt(BigRoundShift(BigMulSmall(x.m, 100), -x.e, FALSE))

(***************************************************************************)
(* calculate on doubles, for days, miles and receipts that are not         *)
(* negative: the same statements as above, every operation rounded to a    *)
(* double as the interpreter rounds it.                                    *)
(***************************************************************************)

\* the doubles of miles (in tenths) and of receipts (in mills)
FloatMiles(m) == FromDecimal(m, 10)
FloatReceipts(r) == FromDecimal(r, 1000)

\* 1800 + (receipts - 1800) * 0.15
FloatCappedReceipts(r) ==
    IF r > 1800000
    THEN FAdd(FromInt(1800),
              FMul(FSub(FloatReceipts(r), FromInt(1800)),
                   FromDecimal(15, 100)))
    ELSE FloatReceipts(r)

\* 800 + (miles - 800) * 0.25
FloatCappedMiles(m) ==
    IF m > 8000
    THEN FAdd(FromInt(800),
              FMul(FSub(FloatMiles(m), FromInt(800)), FromDecimal(25, 100)))
    ELSE FloatMiles(m)

\* intercept + coef_days * days + coef_miles * capped_miles
\*           + coef_receipts * capped_receipts, added from the left
FloatLinearAmount(c, d, cm, cr) ==
    FAdd(FAdd(FAdd(FromDecimal(c.intercept, 100),
                   FMul(FromDecimal(c.coef_days, 100), FromInt(d))),
              FMul(FromDecimal(c.coef_miles, 10000), cm)),
         FMul(FromDecimal(c.coef_receipts, 10000), cr))

\* the amount before the adjustments
FloatBase(c, d, m, r) ==
    FloatLinearAmount(c, d, FloatCappedMiles(m), FloatCappedReceipts(r))

\* the statements of the else branch, numbered in the order of the code:
\* does statement k change the amount of the request?
Applies(k, d, m, r) ==
    CASE k = 1 -> IsFiveDay(d)
      [] k = 2 -> IsLongHighMileage(d, m)
      [] k = 3 -> IsShortMinimal(d, m, r)
      [] k = 4 -> IsMidHigh(d, m, r)
      [] k = 5 -> IsTwoWeekHigh(d, m, r)
      [] k = 6 -> IsEfficient(MilesPerDay(d, m))

\* the literal of statement k, in hundredths
Literal(k) ==
    CASE k = 1 -> 92
      [] k = 2 -> 85
      [] k = 3 -> 115
      [] k = 4 -> 125
      [] k = 5 -> 120
      [] k = 6 -> 3000

\* statement k on the double a: amount *= literal, or amount += 30.0
FloatStatement(k, a, d, m, r) ==
    IF ~Applies(k, d, m, r) THEN a
    ELSE IF k = 6 THEN FAdd(a, FromDecimal(Literal(k), 100))
    ELSE FMul(a, FromDecimal(Literal(k), 100))

\* the statements order[i], order[i+1], ... on the double a
RECURSIVE FloatStatements(_, _, _, _, _, _)
FloatStatements(order, i, a, d, m, r) ==
    IF i > Len(order) THEN a
    ELSE FloatStatements(order, i + 1,
                         FloatStatement(order[i], a, d, m, r), d, m, r)

\* the order of the code
CodeOrder == <<1, 2, 3, 4, 5, 6>>

\* amount at line 81, as a double: the quirk factor alone, or the
\* statements of the else branch in the given order
FloatAmount(c, d, m, r, order) ==
    IF HasRoundingBug(r)
    THEN FMul(FloatBase(c, d, m, r),
              FromDecimal(c.rounding_bug_factor, 1000))
    ELSE FloatStatements(order, 1, FloatBase(c, d, m, r), d, m, r)

(***************************************************************************)
(* The state: the calculators, for every caller the frame of its call of   *)
(* calculate, and the run of main.                                         *)
(***************************************************************************)
Procs == {1, 2}
Insts == {1, 2}

VARIABLES
    calc,               \* calc[i]: the attributes of calculator i
    fp_half_up,         \* the side on which the double of a half cent lies
    pc,                 \* pc[p]: the statement caller p is at
    self_,              \* the calculator the call runs on
    days, miles, receipts,          \* the arguments
    has_rounding_bug, capped_receipts, capped_miles, amount, result,
    returned,           \* the value the call returned
    argv,               \* sys.argv[1:], every argument a text
    mpc,                \* the statement main is at
    m_days, m_miles, m_receipts,    \* the locals days, miles, receipts of main
    stdout, stderr,     \* the lines printed so far
    exit_code,          \* the exit status, once main has ended
    calls               \* how often main has invoked calculate

frame == <<self_, days, miles, receipts, has_rounding_bug, capped_receipts,
           capped_miles, amount, result>>
io == <<argv, mpc, m_days, m_miles, m_receipts, stdout, stderr, exit_code,
        calls>>
vars == <<calc, fp_half_up, pc, frame, returned, io>>

\* the calculators constructed, no call of calculate begun
InitCalc ==
    /\ calc = [i \in Insts |-> NewCalculator]
    /\ fp_half_up \in BOOLEAN
    /\ pc = [p \in Procs |-> "idle"]
    /\ self_ = [p \in Procs |-> 1]
    /\ days = [p \in Procs |-> 0]
    /\ miles = [p \in Procs |-> 0]
    /\ receipts = [p \in Procs |-> 0]
    /\ has_rounding_bug = [p \in Procs |-> FALSE]
    /\ capped_receipts = [p \in Procs |-> Zero]
    /\ capped_miles = [p \in Procs |-> Zero]
    /\ amount = [p \in Procs |-> Zero]
    /\ result = [p \in Procs |-> Zero]
    /\ returned = [p \in Procs |-> Zero]

\* main has not been started
NoMain ==
    /\ argv = <<>>
    /\ mpc = "none"
    /\ m_days = 0
    /\ m_miles = 0
    /\ m_receipts = 0
    /\ stdout = <<>>
    /\ stderr = <<>>
    /\ exit_code = 0
    /\ calls = 0

Init == InitCalc /\ NoMain

Goto(p, at, to) == pc[p] = at /\ pc' = [pc EXCEPT ![p] = to]

\* calculator.calculate(days, miles, receipts) on calculator i; the caller
\* says what becomes of its own variables
Call(p, i, d, m, r) ==
    /\ Goto(p, "idle", "detect")
    /\ self_' = [self_ EXCEPT ![p] = i]
    /\ days' = [days EXCEPT ![p] = d]
    /\ miles' = [miles EXCEPT ![p] = m]
    /\ receipts' = [receipts EXCEPT ![p] = r]
    /\ UNCHANGED <<calc, fp_half_up, has_rounding_bug, capped_receipts,
                   capped_miles, amount, result, returned>>

\* receipt_str = ...; has_rounding_bug = ...
DetectRoundingBug(p) ==
    /\ Goto(p, "detect", "cap_receipts")
    /\ has_rounding_bug' =
           [has_rounding_bug EXCEPT ![p] = HasRoundingBug(receipts[p])]
    /\ UNCHANGED <<calc, fp_half_up, io, self_, days, miles, receipts,
                   capped_receipts, capped_miles, amount, result, returned>>

CapReceipts(p) ==
    /\ Goto(p, "cap_receipts", "cap_miles")
    /\ capped_receipts' =
           [capped_receipts EXCEPT ![p] = CappedReceipts(receipts[p])]
    /\ UNCHANGED <<calc, fp_half_up, io, self_, days, miles, receipts,
                   has_rounding_bug, capped_miles, amount, result, returned>>

CapMiles(p) ==
    /\ Goto(p, "cap_miles", "base")
    /\ capped_miles' = [capped_miles EXCEPT ![p] = CappedMiles(miles[p])]
    /\ UNCHANGED <<calc, fp_half_up, io, self_, days, miles, receipts,
                   has_rounding_bug, capped_receipts, amount, result,
                   returned>>

\* a slip: the amount kept on the calculator, as its intercept
BaseAmountStored(p) ==
    /\ ~IntToFloat(days[p]).err
    /\ Goto(p, "base", "branch")
    /\ amount' = [amount EXCEPT ![p] =
                      LinearAmount(calc[self_[p]], days[p], capped_miles[p],
                                   capped_receipts[p])]
    /\ calc' = [calc EXCEPT ![self_[p]].intercept = FloorAt(amount'[p], 2)]
    /\ UNCHANGED <<fp_half_up, io, self_, days, miles, receipts,
                   has_rounding_bug, capped_receipts, capped_miles, result,
                   returned>>

\* amount = (self.intercept + self.coef_days * days + ...).  The product
\* with an int days that no double holds leaves calculate with OverflowError.
BaseAmount(p) ==
    LET f == IntToFloat(days[p])
    IN  /\ pc[p] = "base"
        /\ pc' = [pc EXCEPT ![p] = IF f.err THEN "raised" ELSE "branch"]
        /\ amount' =
               IF f.err THEN amount
               ELSE [amount EXCEPT ![p] =
                         LinearAmount(calc[self_[p]], f.val,
                                      capped_miles[p], capped_receipts[p])]
        /\ UNCHANGED <<calc, fp_half_up, io, self_, days, miles, receipts,
                       has_rounding_bug, capped_receipts, capped_miles,
                       result, returned>>

\* the frame and the calculators but for amount
Rest == <<calc, fp_half_up, io, self_, days, miles, receipts,
          has_rounding_bug, capped_receipts, capped_miles, result, returned>>

\* a slip: the adjustments run after the quirk factor too (no else)
ApplyRoundingBugThenAdjust(p) ==
    /\ has_rounding_bug[p]
    /\ Goto(p, "branch", "long_trip")
    /\ amount' = [amount EXCEPT ![p] = TimesBugFactor(calc[self_[p]], @)]
    /\ UNCHANGED Rest

\* if has_rounding_bug: amount *= self.rounding_bug_factor
ApplyRoundingBug(p) ==
    /\ has_rounding_bug[p]
    /\ Goto(p, "branch", "round")
    /\ amount' = [amount EXCEPT ![p] = TimesBugFactor(calc[self_[p]], @)]
    /\ UNCHANGED Rest

\* else: if days == 5: amount *= 0.92
FiveDayReduction(p) ==
    /\ ~has_rounding_bug[p]
    /\ Goto(p, "branch", "long_trip")
    /\ amount' = [amount EXCEPT ![p] =
                      IF IsFiveDay(days[p]) THEN MulDec(@, 92, 100) ELSE @]
    /\ UNCHANGED Rest

\* a slip: the test on the capped miles
LongTripReductionOnCapped(p) ==
    /\ Goto(p, "long_trip", "short_trip")
    /\ amount' = [amount EXCEPT ![p] =
                      IF days[p] >= 12
                         /\ LessEq(Dollars(1000), capped_miles[p])
                      THEN MulDec(@, 85, 100) ELSE @]
    /\ UNCHANGED Rest

\* a slip: the test as the condition of a loop (while instead of if)
LongTripReductionWhile(p) ==
    /\ pc[p] = "long_trip"
    /\ pc' = [pc EXCEPT ![p] = IF IsLongHighMileage(days[p], miles[p])
                               THEN "long_trip" ELSE "short_trip"]
    /\ amount' = [amount EXCEPT ![p] =
                      IF IsLongHighMileage(days[p], miles[p])
                      THEN MulDec(@, 85, 100) ELSE @]
    /\ UNCHANGED Rest

\* if days >= 12 and miles >= 1000: amount *= 0.85
LongTripReduction(p) ==
    /\ Goto(p, "long_trip", "short_trip")
    /\ amount' = [amount EXCEPT ![p] =
                      IF IsLongHighMileage(days[p], miles[p])
                      THEN MulDec(@, 85, 100) ELSE @]
    /\ UNCHANGED Rest

\* a slip: the test on days < 2
ShortTripBoostOneDay(p) ==
    /\ Goto(p, "short_trip", "mid_trip")
    /\ amount' = [amount EXCEPT ![p] =
                      IF /\ days[p] < 2
                         /\ IsShortMinimal(days[p], miles[p], receipts[p])
                      THEN MulDec(@, 115, 100) ELSE @]
    /\ UNCHANGED Rest

\* if days <= 2 and miles < 100 and receipts < 50: amount *= 1.15
ShortTripBoost(p) ==
    /\ Goto(p, "short_trip", "mid_trip")
    /\ amount' = [amount EXCEPT ![p] =
                      IF IsShortMinimal(days[p], miles[p], receipts[p])
                      THEN MulDec(@, 115, 100) ELSE @]
    /\ UNCHANGED Rest

\* if 7 <= days <= 8 and miles >= 1000 and receipts >= 1000: amount *= 1.25
MidTripBoost(p) ==
    /\ Goto(p, "mid_trip", "two_week")
    /\ amount' = [amount EXCEPT ![p] =
                      IF IsMidHigh(days[p], miles[p], receipts[p])
                      THEN MulDec(@, 125, 100) ELSE @]
    /\ UNCHANGED Rest

\* a slip: the test chained to the long-trip test with elif
TwoWeekBoostElif(p) ==
    /\ Goto(p, "two_week", "bonus")
    /\ amount' = [amount EXCEPT ![p] =
                      IF /\ ~IsLongHighMileage(days[p], miles[p])
                         /\ IsTwoWeekHigh(days[p], miles[p], receipts[p])
                      THEN MulDec(@, 120, 100) ELSE @]
    /\ UNCHANGED Rest

\* if 13 <= days <= 14 and miles >= 1000 and receipts >= 1000: amount *= 1.20
TwoWeekBoost(p) ==
    /\ Goto(p, "two_week", "bonus")
    /\ amount' = [amount EXCEPT ![p] =
                      IF IsTwoWeekHigh(days[p], miles[p], receipts[p])
                      THEN MulDec(@, 120, 100) ELSE @]
    /\ UNCHANGED Rest

\* a slip: the bonus as the factor 1.03 of the other variant of the calculator
EfficiencyBonusAsFactor(p) ==
    LET q == MilesPerDay(days[p], miles[p])
    IN  /\ pc[p] = "bonus"
        /\ pc' = [pc EXCEPT ![p] = IF q.err THEN "raised" ELSE "round"]
        /\ amount' = [amount EXCEPT ![p] =
                          IF ~q.err /\ IsEfficient(q)
                          THEN MulDec(@, 103, 100) ELSE @]
        /\ UNCHANGED Rest

\* miles_per_day = ...; if 180 <= miles_per_day <= 220: amount += 30.0.
\* A division by zero leaves calculate with ZeroDivisionError.
EfficiencyBonus(p) ==
    LET q == MilesPerDay(days[p], miles[p])
    IN  /\ pc[p] = "bonus"
        /\ pc' = [pc EXCEPT ![p] = IF q.err THEN "raised" ELSE "round"]
        /\ amount' = [amount EXCEPT ![p] =
                          IF ~q.err /\ IsEfficient(q)
                          THEN Add(@, Dollars(30)) ELSE @]
        /\ UNCHANGED Rest

\* result = round(amount, 2)
RoundResult(p) ==
    /\ Goto(p, "round", "return")
    /\ result' = [result EXCEPT ![p] = RoundAmount(amount[p], fp_half_up)]
    /\ UNCHANGED <<calc, fp_half_up, io, self_, days, miles, receipts,
                   has_rounding_bug, capped_receipts, capped_miles, amount,
                   returned>>

\* return max(0.0, result)
Return(p) ==
    /\ Goto(p, "return", "done")
    /\ returned' = [returned EXCEPT ![p] = NonNegative(result[p])]
    /\ UNCHANGED <<calc, fp_half_up, io, frame>>

\* the caller has used the value (or seen the exception); the frame of the
\* call is gone, and the caller may call again
Finish(p) ==
    /\ pc[p] \in {"done", "raised"}
    /\ pc' = [pc EXCEPT ![p] = "idle"]
    /\ self_' = [self_ EXCEPT ![p] = 1]
    /\ days' = [days EXCEPT ![p] = 0]
    /\ miles' = [miles EXCEPT ![p] = 0]
    /\ receipts' = [receipts EXCEPT ![p] = 0]
    /\ has_rounding_bug' = [has_rounding_bug EXCEPT ![p] = FALSE]
    /\ capped_receipts' = [capped_receipts EXCEPT ![p] = Zero]
    /\ capped_miles' = [capped_miles EXCEPT ![p] = Zero]
    /\ amount' = [amount EXCEPT ![p] = Zero]
    /\ result' = [result EXCEPT ![p] = Zero]
    /\ returned' = [returned EXCEPT ![p] = Zero]
    /\ UNCHANGED <<calc, fp_half_up, io>>

Step(p) ==
    \/ DetectRoundingBug(p)
    \/ CapReceipts(p)
    \/ CapMiles(p)
    \/ BaseAmount(p)
    \/ ApplyRoundingBug(p)
    \/ FiveDayReduction(p)
    \/ LongTripReduction(p)
    \/ ShortTripBoost(p)
    \/ MidTripBoost(p)
    \/ TwoWeekBoost(p)
    \/ EfficiencyBonus(p)
    \/ RoundResult(p)
    \/ Return(p)
    \/ Finish(p)

(***************************************************************************)
(* The requests of the single-caller specification.                        *)
(***************************************************************************)
\* days 0..MaxDays, one negative value and TooLarge; miles every 200 up to
\* 200 * MaxMileIdx and the values next to the thresholds; receipts every
\* 250 dollars up to 250 * MaxReceiptIdx and values with chosen cents
MaxDays == 14
MaxMileIdx == 15
MaxReceiptIdx == 10
MileStep == 200 * 10
ReceiptStep == 250 * 1000

Days == (0..MaxDays) \cup {-MaxDays, TooLarge}
Miles ==
    {k * MileStep : k \in 0..MaxMileIdx}
    \cup {-1000, 470, 500, 550, 930, 999, 1000, 1300, 1730, 1799, 1800,
          2200, 2201, 7999, 8001, 9000, 9999, 11000}
Receipts ==
    {k * ReceiptStep : k \in 0..MaxReceiptIdx}
    \cup {-1490, 490, 1420, 3600, 17970, 49990, 50000, 100484, 100486, 100490,
          100494, 100496, 306900, 999990, 1337900, 1800010, 1800490,
          2000990}

\* one caller (main), one calculator, any request
Invoke ==
    /\ pc[1] = "idle"
    /\ \E d \in Days, m \in Miles, r \in Receipts : Call(1, 1, d, m, r)
    /\ UNCHANGED io

Next == Invoke \/ Step(1)

Spec == Init /\ [][Next]_vars

(***************************************************************************)
(* The two-caller specification: two callers that call calculate again and *)
(* again, on one calculator or on two, one call at a time.  A caller keeps *)
(* the frame and the value of its last call until it calls again, so that  *)
(* two calls can be compared.                                              *)
(***************************************************************************)
SeqDays == {5, 12, 13}
SeqMiles == {8000, 9000, 10000, 11000}
SeqReceipts == {1800000, 1800490, 2000000, 2000990}

Running(p) == pc[p] \notin {"idle", "done", "raised"}

InvokeSeq(p) ==
    /\ pc[p] = "idle"
    /\ \E i \in (IF p = 1 THEN {1} ELSE Insts), d \in SeqDays,
          m \in SeqMiles, r \in SeqReceipts : Call(p, i, d, m, r)
    /\ UNCHANGED io

\* no other caller is inside calculate
Alone(p) == \A q \in Procs \ {p} : ~Running(q)

NextSeq ==
    \E p \in Procs :
        \/ Alone(p) /\ InvokeSeq(p)
        \/ Alone(p) /\ DetectRoundingBug(p)
        \/ Alone(p) /\ CapReceipts(p)
        \/ Alone(p) /\ CapMiles(p)
        \/ Alone(p) /\ BaseAmount(p)
        \/ Alone(p) /\ ApplyRoundingBug(p)
        \/ Alone(p) /\ FiveDayReduction(p)
        \/ Alone(p) /\ LongTripReduction(p)
        \/ Alone(p) /\ ShortTripBoost(p)
        \/ Alone(p) /\ MidTripBoost(p)
        \/ Alone(p) /\ TwoWeekBoost(p)
        \/ Alone(p) /\ EfficiencyBonus(p)
        \/ Alone(p) /\ RoundResult(p)
        \/ Alone(p) /\ Return(p)
        \/ Alone(p) /\ Finish(p)

SpecSeq == Init /\ [][NextSeq]_vars

(***************************************************************************)
(* The neighbour specification: two callers on one calculator, one call at *)
(* a time, with requests that lie next to each other: receipts a cent      *)
(* below, at and a cent above a quirked value, miles and receipts at and   *)
(* around the caps.                                                        *)
(***************************************************************************)
PairDays == {1, 13}
PairMiles == {0, 7990, 8000, 8010, 12000}
PairReceipts == {480, 490, 500, 1800000, 1800480, 1800490, 1800500}

InvokePair(p) ==
    /\ pc[p] = "idle"
    /\ \E d \in PairDays, m \in PairMiles, r \in PairReceipts :
           Call(p, 1, d, m, r)
    /\ UNCHANGED io

NextPair ==
    \E p \in Procs :
        \/ Alone(p) /\ InvokePair(p)
        \/ Alone(p) /\ DetectRoundingBug(p)
        \/ Alone(p) /\ CapReceipts(p)
        \/ Alone(p) /\ CapMiles(p)
        \/ Alone(p) /\ BaseAmount(p)
        \/ Alone(p) /\ ApplyRoundingBug(p)
        \/ Alone(p) /\ FiveDayReduction(p)
        \/ Alone(p) /\ LongTripReduction(p)
        \/ Alone(p) /\ ShortTripBoost(p)
        \/ Alone(p) /\ MidTripBoost(p)
        \/ Alone(p) /\ TwoWeekBoost(p)
        \/ Alone(p) /\ EfficiencyBonus(p)
        \/ Alone(p) /\ RoundResult(p)
        \/ Alone(p) /\ Return(p)
        \/ Alone(p) /\ Finish(p)

SpecPair == Init /\ [][NextPair]_vars

(***************************************************************************)
(* main: the command line.  An argument is a text, a sequence of           *)
(* characters; int() and float() are modelled on the characters.  The      *)
(* texts of the model are signed decimal literals and texts that are no    *)
(* numbers; they hold no blanks, underscores or exponents, and none spells *)
(* inf or nan.  A float is kept as a whole number of 10^-nd, nd being 1    *)
(* for miles and 3 for receipts, and the texts have no more decimals.      *)
(***************************************************************************)
Digit == {"0", "1", "2", "3", "4", "5", "6", "7", "8", "9"}

DigitValue(c) ==
    CASE c = "0" -> 0 [] c = "1" -> 1 [] c = "2" -> 2 [] c = "3" -> 3
      [] c = "4" -> 4 [] c = "5" -> 5 [] c = "6" -> 6 [] c = "7" -> 7
      [] c = "8" -> 8 [] c = "9" -> 9

\* the number a sequence of digits spells
RECURSIVE Decimal(_)
Decimal(t) ==
    IF t = <<>> THEN 0
    ELSE Decimal(SubSeq(t, 1, Len(t) - 1)) * 10 + DigitValue(t[Len(t)])

AllDigits(t) == \A i \in 1..Len(t) : t[i] \in Digit
HasSign(t) == t # <<>> /\ t[1] \in {"+", "-"}
Unsigned(t) == IF HasSign(t) THEN Tail(t) ELSE t
Signed(t, n) == IF HasSign(t) /\ t[1] = "-" THEN -n ELSE n

\* int(text): an optional sign and one digit or more, or ValueError.  An
\* int has any number of digits; the texts of more than nine digits that the
\* model holds have 310, and their value is kept as TooLarge.
ParseInt(t) ==
    LET u == Unsigned(t)
    IN  IF u = <<>> \/ ~AllDigits(u) THEN [err |-> TRUE, val |-> 0]
        ELSE [err |-> FALSE,
              val |-> Signed(t, IF Len(u) > 9 THEN TooLarge
                                ELSE Decimal(u))]

\* float(text), in units of 10^-nd: an optional sign, digits, at most one
\* point, one digit at least; or ValueError
ParseFloat(t, nd) ==
    LET u == Unsigned(t)
        dots == {i \in 1..Len(u) : u[i] = "."}
        k == IF dots = {} THEN Len(u) + 1 ELSE CHOOSE i \in dots : TRUE
        ip == SubSeq(u, 1, k - 1)
        fp == SubSeq(u, k + 1, Len(u))
    IN  IF \/ Cardinality(dots) > 1
           \/ ~AllDigits(ip) \/ ~AllDigits(fp)
           \/ Len(ip) + Len(fp) = 0
        THEN [err |-> TRUE, val |-> 0]
        ELSE [err |-> FALSE,
              val |-> Signed(t, Decimal(ip) * (10 ^ nd)
                                + Decimal(fp) * (10 ^ (nd - Len(fp))))]

\* int(miles) of a float in tenths: the fraction dropped, towards zero; the
\* value stays in tenths of a mile
FloatToInt(x) == IF x >= 0 THEN (x \div 10) * 10 ELSE -(((-x) \div 10) * 10)

\* f"{result:.2f}": sign, whole part and two decimal digits
FormatResult(x) ==
    LET a == IF IsNeg(x) THEN Neg(x) ELSE x
        c == FloorAt(Round(a, 2, fp_half_up), 2)
    IN  [kind |-> "number", neg |-> IsNeg(x), whole |-> c \div 100,
         frac |-> c % 100]

\* the line print() writes at line 90
UsageLine == [kind |-> "usage", neg |-> FALSE, whole |-> 0, frac |-> 0]

\* main begins with the arguments args
Start(args) ==
    /\ argv = args
    /\ mpc = "start"
    /\ m_days = 0
    /\ m_miles = 0
    /\ m_receipts = 0
    /\ stdout = <<>>
    /\ stderr = <<>>
    /\ exit_code = 0
    /\ calls = 0

\* sys.exit(code), or the return of main for code 0
Exit(code) == mpc' = "exited" /\ exit_code' = code

\* if len(sys.argv) != 4: print("Usage: ..."); sys.exit(1)
MainUsage ==
    /\ mpc = "start"
    /\ Len(argv) # 3
    /\ stdout' = Append(stdout, UsageLine)
    /\ Exit(1)
    /\ UNCHANGED <<calc, fp_half_up, pc, frame, returned, argv, m_days,
                   m_miles, m_receipts, stderr, calls>>

\* days = int(sys.argv[1])
MainParseDays ==
    LET v == ParseInt(argv[1])
    IN  /\ mpc = "start"
        /\ Len(argv) = 3
        /\ mpc' = IF v.err THEN "value_error" ELSE "float_miles"
        /\ m_days' = IF v.err THEN m_days ELSE v.val
        /\ UNCHANGED <<calc, fp_half_up, pc, frame, returned, argv, m_miles,
                       m_receipts, stdout, stderr, exit_code, calls>>

\* miles = float(sys.argv[2])
MainParseMiles ==
    LET v == ParseFloat(argv[2], 1)
    IN  /\ mpc = "float_miles"
        /\ mpc' = IF v.err THEN "value_error" ELSE "int_miles"
        /\ m_miles' = IF v.err THEN m_miles ELSE v.val
        /\ UNCHANGED <<calc, fp_half_up, pc, frame, returned, argv, m_days,
                       m_receipts, stdout, stderr, exit_code, calls>>

\* a slip: the truncation as a floor
MainIntMilesFloor ==
    /\ mpc = "int_miles"
    /\ mpc' = "float_receipts"
    /\ m_miles' = (m_miles \div 10) * 10
    /\ UNCHANGED <<calc, fp_half_up, pc, frame, returned, argv, m_days,
                   m_receipts, stdout, stderr, exit_code, calls>>

\* miles = int(miles)
MainIntMiles ==
    /\ mpc = "int_miles"
    /\ mpc' = "float_receipts"
    /\ m_miles' = FloatToInt(m_miles)
    /\ UNCHANGED <<calc, fp_half_up, pc, frame, returned, argv, m_days,
                   m_receipts, stdout, stderr, exit_code, calls>>

\* receipts = float(sys.argv[3])
MainParseReceipts ==
    LET v == ParseFloat(argv[3], 3)
    IN  /\ mpc = "float_receipts"
        /\ mpc' = IF v.err THEN "value_error" ELSE "construct"
        /\ m_receipts' = IF v.err THEN m_receipts ELSE v.val
        /\ UNCHANGED <<calc, fp_half_up, pc, frame, returned, argv, m_days,
                       m_miles, stdout, stderr, exit_code, calls>>

\* calculator = ReimbursementCalculator()
MainConstruct ==
    /\ mpc = "construct"
    /\ mpc' = "call"
    /\ calc' = [calc EXCEPT ![1] = NewCalculator]
    /\ UNCHANGED <<fp_half_up, pc, frame, returned, argv, m_days, m_miles,
                   m_receipts, stdout, stderr, exit_code, calls>>

\* result = calculator.calculate(days, miles, receipts): the call
MainCall ==
    /\ mpc = "call"
    /\ mpc' = "in_call"
    /\ Call(1, 1, m_days, m_miles, m_receipts)
    /\ calls' = calls + 1
    /\ UNCHANGED <<argv, m_days, m_miles, m_receipts, stdout, stderr,
                   exit_code>>

\* print(f"{result:.2f}"), once calculate has returned
MainPrint ==
    /\ mpc = "in_call"
    /\ pc[1] = "done"
    /\ mpc' = "end"
    /\ stdout' = Append(stdout, FormatResult(returned[1]))
    /\ UNCHANGED <<calc, fp_half_up, pc, frame, returned, argv, m_days,
                   m_miles, m_receipts, stderr, exit_code, calls>>

\* main returns: the process ends with status 0
MainReturn ==
    /\ mpc = "end"
    /\ Exit(0)
    /\ UNCHANGED <<calc, fp_half_up, pc, frame, returned, argv, m_days,
                   m_miles, m_receipts, stdout, stderr, calls>>

\* calculate has raised; the exception (ZeroDivisionError, OverflowError) is
\* no ValueError and reaches except Exception
MainCatch ==
    /\ mpc = "in_call"
    /\ pc[1] = "raised"
    /\ mpc' = "error"
    /\ UNCHANGED <<calc, fp_half_up, pc, frame, returned, argv, m_days,
                   m_miles, m_receipts, stdout, stderr, exit_code, calls>>

\* except ValueError as e: print(..., file=sys.stderr); sys.exit(1)
ExceptValueError ==
    /\ mpc = "value_error"
    /\ stderr' = Append(stderr, "Error: Invalid input - ")
    /\ Exit(1)
    /\ UNCHANGED <<calc, fp_half_up, pc, frame, returned, argv, m_days,
                   m_miles, m_receipts, stdout, calls>>

\* except Exception as e: print(..., file=sys.stderr); sys.exit(1)
ExceptException ==
    /\ mpc = "error"
    /\ stderr' = Append(stderr, "Error: ")
    /\ Exit(1)
    /\ UNCHANGED <<calc, fp_half_up, pc, frame, returned, argv, m_days,
                   m_miles, m_receipts, stdout, calls>>

(***************************************************************************)
(* The command lines of the specification of main.                         *)
(***************************************************************************)
\* an int literal of 310 digits
LongInt == [i \in 1..310 |-> IF i = 1 THEN "1" ELSE "0"]

DaysTexts ==
    {<<"0">>, <<"1">>, <<"2">>, <<"3">>, <<"5">>, <<"1", "2">>,
     <<"-", "3">>, <<"+", "7">>, <<"3", ".", "0">>, <<"a", "b", "c">>,
     <<>>, LongInt}
MilesTexts ==
    {<<"0">>, <<"5", "0">>, <<"5", "5">>, <<"9", "3">>,
     <<"9", "9", ".", "9">>, <<"1", "0", "0">>, <<"1", "8", "0">>,
     <<"9", "9", "9", ".", "9">>, <<"1", "0", "0", "0">>,
     <<"1", "0", "0", "0", ".", "5">>, <<"8", "0", "0", ".", "9">>,
     <<"-", "0", ".", "5">>, <<"-", "9", "9", ".", "9">>, <<".", "5">>,
     <<"1", ".", "2", ".", "3">>, <<"a", "b", "c">>, <<"-">>}
ReceiptsTexts ==
    {<<"0">>, <<"1", ".", "4", "2">>, <<"3", ".", "6">>,
     <<"4", "9", ".", "9", "9">>, <<"1", "0", "0", ".", "4", "9">>,
     <<"1", "0", "0", "0">>, <<"-", "5">>, <<"1", "2", ".">>,
     <<"a", "b", "c">>, <<".">>}

\* the lines with another number of arguments than three: 0..MaxArgs
MaxArgs == 4
WrongCount == {[i \in 1..n |-> <<"1">>] : n \in (0..MaxArgs) \ {3}}

Argvs ==
    {<<d, m, r>> : d \in DaysTexts, m \in MilesTexts, r \in ReceiptsTexts}
    \cup WrongCount

InitMain == InitCalc /\ \E args \in Argvs : Start(args)

\* one run of main, with calculate inside it
NextMain ==
    \/ MainUsage
    \/ MainParseDays
    \/ MainParseMiles
    \/ MainIntMiles
    \/ MainParseReceipts
    \/ MainConstruct
    \/ MainCall
    \/ DetectRoundingBug(1)
    \/ CapReceipts(1)
    \/ CapMiles(1)
    \/ BaseAmount(1)
    \/ ApplyRoundingBug(1)
    \/ FiveDayReduction(1)
    \/ LongTripReduction(1)
    \/ ShortTripBoost(1)
    \/ MidTripBoost(1)
    \/ TwoWeekBoost(1)
    \/ EfficiencyBonus(1)
    \/ RoundResult(1)
    \/ Return(1)
    \/ MainPrint
    \/ MainReturn
    \/ MainCatch
    \/ ExceptValueError
    \/ ExceptException

SpecMain == InitMain /\ [][NextMain]_vars

(***************************************************************************)
(* The concurrent specification: two callers inside calculate at the same  *)
(* time, on one shared calculator, their statements interleaved in every   *)
(* order.                                                                  *)
(***************************************************************************)
ParDays == {5, 13}
ParMiles == {9000, 10000}
ParReceipts == {1800490, 2000000}

InvokePar(p) ==
    /\ pc[p] = "idle"
    /\ \E d \in ParDays, m \in ParMiles, r \in ParReceipts :
           Call(p, 1, d, m, r)
    /\ UNCHANGED io

NextPar ==
    \E p \in Procs :
        \/ InvokePar(p)
        \/ DetectRoundingBug(p)
        \/ CapReceipts(p)
        \/ CapMiles(p)
        \/ BaseAmount(p)
        \/ ApplyRoundingBug(p)
        \/ FiveDayReduction(p)
        \/ LongTripReduction(p)
        \/ ShortTripBoost(p)
        \/ MidTripBoost(p)
        \/ TwoWeekBoost(p)
        \/ EfficiencyBonus(p)
        \/ RoundResult(p)
        \/ Return(p)
        \/ Finish(p)

SpecPar == Init /\ [][NextPar]_vars

(***************************************************************************)
(* The terms of the properties.  These definitions are no part of the      *)
(* model of the program: they state the quantities the properties speak    *)
(* of (Stage A to Stage F of the engine's contract), and the properties    *)
(* compare the state of calculate with them.                               *)
(***************************************************************************)
\* Stage A: the cents of receipts, formatted to two decimals, are 49 or 99
SpecQuirked(r) == FormatReceipts(r).frac \in {49, 99}

\* Stage B
SpecCappedMiles(m) ==
    IF m <= 8000 THEN Tenths(m)
    ELSE Add(Dollars(800), MulDec(Tenths(m - 8000), 25, 100))
SpecCappedReceipts(r) ==
    IF r <= 1800000 THEN Mills(r)
    ELSE Add(Dollars(1800), MulDec(Mills(r - 1800000), 15, 100))

\* Stage C: 266.71 + 50.05*days + 0.4456*cappedMiles + 0.3829*cappedReceipts
SpecBase(d, m, r) ==
    Add(Add(Cents(26671), MulSmall(Cents(5005), d)),
        Add(MulDec(SpecCappedMiles(m), 4456, 10000),
            MulDec(SpecCappedReceipts(r), 3829, 10000)))

\* Stage E: the condition of adjustment k, on the original inputs
SpecRule(k, d, m, r) ==
    CASE k = 1 -> d = 5
      [] k = 2 -> d >= 12 /\ m >= 10000
      [] k = 3 -> d <= 2 /\ m < 1000 /\ r < 50000
      [] k = 4 -> d \in {7, 8} /\ m >= 10000 /\ r >= 1000000
      [] k = 5 -> d \in {13, 14} /\ m >= 10000 /\ r >= 1000000
      [] k = 6 -> IF d > 0 THEN 1800 * d <= m /\ m <= 2200 * d
                  ELSE 1800 <= m /\ m <= 2200

\* the adjustments that apply to a request: 0 stands for the quirk factor
SpecMatching(d, m, r) ==
    IF SpecQuirked(r) THEN {0} ELSE {k \in 1..6 : SpecRule(k, d, m, r)}

\* a times the multipliers of the adjustments in ks
SpecTimes(a, ks) ==
    LET a0 == IF 0 \in ks THEN MulDec(a, 457, 1000) ELSE a
        a1 == IF 1 \in ks THEN MulDec(a0, 92, 100) ELSE a0
        a2 == IF 2 \in ks THEN MulDec(a1, 85, 100) ELSE a1
        a3 == IF 3 \in ks THEN MulDec(a2, 115, 100) ELSE a2
        a4 == IF 4 \in ks THEN MulDec(a3, 125, 100) ELSE a3
    IN  IF 5 \in ks THEN MulDec(a4, 120, 100) ELSE a4

\* Stage F: the nearest cent, and the clamp
SpecRound2(a) == Round(a, 2, fp_half_up)
SpecClamp(a) == IF IsNeg(a) THEN Zero ELSE a

\* the documented range of a request, with days = 0 admitted
InRange(d, m, r) == d >= 0 /\ m >= 0 /\ r >= 0

\* calculate has returned / has finished adjusting the amount
Returned(p) == pc[p] = "done"
Adjusted(p) == pc[p] \in {"round", "return", "done"}
Abs(a) == IF IsNeg(a) THEN Neg(a) ELSE a
WholeCents(a) == IsZero(RestAt(a, 2))

(***************************************************************************)
(* Properties of calculate.                                                *)
(***************************************************************************)

\* C1 Quirk exclusivity: whenever the cents of receipts, formatted to two
\* decimals, are 49 or 99, calculate returns max(0, round2(0.457 * base)),
\* base being the Stage C amount: no multiplier of rules 1-5 and no +30 is
\* applied, whatever days and miles are.
C1_QuirkExclusive ==
    \A p \in Procs :
        (Returned(p) /\ SpecQuirked(receipts[p])) =>
            returned[p] =
                SpecClamp(SpecRound2(
                    MulDec(SpecBase(days[p], miles[p], receipts[p]),
                           457, 1000)))

\* a quirked call has returned for a request that meets rule 1 (5 days) and
\* rule 6 (200 miles a day), and for one that meets rules 2 and 5
C1_Witness ==
    /\ Returned(1) /\ SpecQuirked(receipts[1])
    /\ days[1] = 5 /\ miles[1] = 10000
    /\ {1, 6} \subseteq {k \in 1..6 :
                            SpecRule(k, days[1], miles[1], receipts[1])}
    /\ ~IsZero(returned[1])

C3_NonNegative == \A p \in Procs : Returned(p) => ~IsNeg(returned[p])

\* the rounded amount was negative and the call returned 0
C3_Witness ==
    Returned(1) /\ IsNeg(result[1]) /\ IsZero(returned[1])

\* C4 Determinism: two calls with equal arguments, on the same calculator or
\* on two, each after any number of earlier calls, return the same value.
C4_Deterministic ==
    \A p, q \in Procs :
        (/\ Returned(p) /\ Returned(q)
         /\ days[p] = days[q] /\ miles[p] = miles[q]
         /\ receipts[p] = receipts[q])
        => returned[p] = returned[q]

\* both callers have returned from equal requests on the same calculator
C4_Witness ==
    /\ Returned(1) /\ Returned(2) /\ self_[1] = self_[2]
    /\ days[1] = days[2] /\ miles[1] = miles[2] /\ receipts[1] = receipts[2]

\* C5 Rounding: the returned value is a whole number of cents, and when the
\* unrounded amount is not negative it is within half a cent of it.
C5_Rounded ==
    \A p \in Procs :
        Returned(p) =>
            /\ WholeCents(returned[p])
            /\ ~IsNeg(amount[p]) =>
                   LessEq(Abs(Sub(returned[p], amount[p])), UnitAt(5, 3))

\* a call has returned whose unrounded amount was not a whole number of
\* cents and was rounded upwards
C5_Witness ==
    /\ Returned(1) /\ ~IsNeg(amount[1]) /\ ~WholeCents(amount[1])
    /\ Less(amount[1], returned[1])

\* the part of the amount that dm tenths of a mile add at the full rate,
\* and the part that dr mills of receipts add at the full rate
MileageAtFullRate(dm) == MulDec(Tenths(dm), 4456, 10000)
ReceiptsAtFullRate(dr) == MulDec(Mills(dr), 3829, 10000)

\* two calls have their unrounded amounts
BothAdjusted(p, q) == Adjusted(p) /\ Adjusted(q)

\* C6 as stated: for fixed days and receipts and 800 <= m1 < m2, the
\* unrounded amount for m2 exceeds the one for m1 by exactly 25% of what the
\* same increase in miles adds at the full rate, so it keeps increasing.
C6_AsStated ==
    \A p, q \in Procs :
        (/\ BothAdjusted(p, q)
         /\ days[p] = days[q] /\ receipts[p] = receipts[q]
         /\ 8000 <= miles[p] /\ miles[p] < miles[q])
        => /\ Less(amount[p], amount[q])
           /\ Sub(amount[q], amount[p]) =
                  SpecTimes(MulDec(MileageAtFullRate(miles[q] - miles[p]),
                                   25, 100),
                            SpecMatching(days[p], miles[p], receipts[p]))

\* C6 amended: the same, for m1 and m2 that meet the same adjustments (the
\* same rules among 1-6, or the quirk); the multipliers of those
\* adjustments scale the increase.
C6_MileageAttenuation ==
    \A p, q \in Procs :
        (/\ BothAdjusted(p, q)
         /\ days[p] = days[q] /\ receipts[p] = receipts[q]
         /\ 8000 <= miles[p] /\ miles[p] < miles[q]
         /\ SpecMatching(days[p], miles[p], receipts[p])
                = SpecMatching(days[q], miles[q], receipts[q]))
        => /\ Less(amount[p], amount[q])
           /\ Sub(amount[q], amount[p]) =
                  SpecTimes(MulDec(MileageAtFullRate(miles[q] - miles[p]),
                                   25, 100),
                            SpecMatching(days[p], miles[p], receipts[p]))

\* two 13-day calls with 1000 and 1100 miles, both under rules 2 and 5
C6_Witness ==
    /\ BothAdjusted(1, 2)
    /\ days[1] = 13 /\ days[2] = 13 /\ receipts[1] = receipts[2]
    /\ miles[1] = 10000 /\ miles[2] = 11000
    /\ SpecMatching(13, 10000, receipts[1]) = {2, 5}
    /\ SpecMatching(13, 11000, receipts[2]) = {2, 5}

\* C7 as stated: for fixed days and miles and 1800 <= r1 < r2, the unrounded
\* amount for r2 exceeds the one for r1 by exactly 15% of what the same
\* increase in receipts adds at the full rate, so it keeps increasing.
C7_AsStated ==
    \A p, q \in Procs :
        (/\ BothAdjusted(p, q)
         /\ days[p] = days[q] /\ miles[p] = miles[q]
         /\ 1800000 <= receipts[p] /\ receipts[p] < receipts[q])
        => /\ Less(amount[p], amount[q])
           /\ Sub(amount[q], amount[p]) =
                  SpecTimes(MulDec(ReceiptsAtFullRate(receipts[q]
                                                      - receipts[p]),
                                   15, 100),
                            SpecMatching(days[p], miles[p], receipts[p]))

\* C7 amended: the same, for r1 and r2 that are both quirked or both not
\* quirked; the multipliers in force scale the increase.
C7_ReceiptAttenuation ==
    \A p, q \in Procs :
        (/\ BothAdjusted(p, q)
         /\ days[p] = days[q] /\ miles[p] = miles[q]
         /\ 1800000 <= receipts[p] /\ receipts[p] < receipts[q]
         /\ SpecQuirked(receipts[p]) = SpecQuirked(receipts[q]))
        => /\ Less(amount[p], amount[q])
           /\ Sub(amount[q], amount[p]) =
                  SpecTimes(MulDec(ReceiptsAtFullRate(receipts[q]
                                                      - receipts[p]),
                                   15, 100),
                            SpecMatching(days[p], miles[p], receipts[p]))

\* two calls with receipts of 1800.00 and 2000.00, neither quirked, both
\* under rules 2 and 5
C7_Witness ==
    /\ BothAdjusted(1, 2)
    /\ days[1] = 13 /\ days[2] = 13
    /\ miles[1] = 10000 /\ miles[2] = 10000
    /\ receipts[1] = 1800000 /\ receipts[2] = 2000000
    /\ ~SpecQuirked(receipts[1]) /\ ~SpecQuirked(receipts[2])

\* C8 Additive-bonus ordering: for a request of one day or more that is not
\* quirked, the unrounded amount is the base times the multipliers of the
\* matching rules among 1-5, plus 30.0 when 180 <= miles/days <= 220 (the
\* bounds included) and plus nothing otherwise; the 30.0 is added once and
\* is not multiplied.
C8_BonusOrdering ==
    \A p \in Procs :
        (Adjusted(p) /\ ~SpecQuirked(receipts[p]) /\ days[p] >= 1) =>
            LET scaled ==
                    SpecTimes(SpecBase(days[p], miles[p], receipts[p]),
                              {k \in 1..5 : SpecRule(k, days[p], miles[p],
                                                     receipts[p])})
            IN  amount[p] =
                    IF 1800 * days[p] <= miles[p]
                       /\ miles[p] <= 2200 * days[p]
                    THEN Add(scaled, Dollars(30)) ELSE scaled

\* a 13-day call under rules 2 and 5 at 2400 / 13 miles a day has its amount
C8_Witness ==
    /\ Adjusted(1) /\ ~SpecQuirked(receipts[1])
    /\ days[1] = 13 /\ miles[1] = 24000 /\ receipts[1] >= 1000000
    /\ SpecMatching(13, 24000, receipts[1]) = {2, 5, 6}

\* C9 Stacking: every matching adjustment is applied, also after an earlier
\* one: a call of 13 or 14 days with miles >= 1000 and receipts >= 1000 that
\* is not quirked is multiplied by 0.85 and by 1.20, and a 5-day call with
\* miles/days in [180, 220] gets both the factor 0.92 and the 30.0.
C9_Stacking ==
    \A p \in Procs :
        (Adjusted(p) /\ ~SpecQuirked(receipts[p])) =>
            LET base == SpecBase(days[p], miles[p], receipts[p])
                both == MulDec(MulDec(base, 85, 100), 120, 100)
            IN  /\ (/\ days[p] \in {13, 14} /\ miles[p] >= 10000
                    /\ receipts[p] >= 1000000)
                   => amount[p] \in {both, Add(both, Dollars(30))}
                /\ (days[p] = 5 /\ 9000 <= miles[p] /\ miles[p] <= 11000)
                   => amount[p] = Add(MulDec(base, 92, 100), Dollars(30))

\* a 14-day call with 1000 miles and receipts of 1000 or more has its amount
C9_Witness ==
    /\ Adjusted(1) /\ ~SpecQuirked(receipts[1])
    /\ days[1] = 14 /\ miles[1] = 10000 /\ receipts[1] >= 1000000

\* C10 days = 0: calculate(0, miles, receipts) does not raise; it takes
\* milesPerDay = miles, so that a call that is not quirked gets the 30.0
\* exactly when 180 <= miles <= 220.
C10_ZeroDays ==
    \A p \in Procs :
        days[p] = 0 =>
            /\ pc[p] # "raised"
            /\ (Adjusted(p) /\ ~SpecQuirked(receipts[p])) =>
                   LET scaled ==
                           SpecTimes(SpecBase(0, miles[p], receipts[p]),
                                     {k \in 1..5 : SpecRule(k, 0, miles[p],
                                                            receipts[p])})
                   IN  amount[p] =
                           IF 1800 <= miles[p] /\ miles[p] <= 2200
                           THEN Add(scaled, Dollars(30)) ELSE scaled

\* calculate(0, 220, receipts) has returned, with the 30.0 in its amount
C10_Witness ==
    /\ Returned(1) /\ days[1] = 0 /\ miles[1] = 2200
    /\ ~SpecQuirked(receipts[1])
    /\ amount[1] = Add(SpecBase(0, 2200, receipts[1]), Dollars(30))

(***************************************************************************)
(* Properties of the failures of calculate and of main.                    *)
(***************************************************************************)

\* C11 No error outcome: for every integer days >= 0 and all miles >= 0 and
\* receipts >= 0, calculate reaches its return statement; no call with such
\* arguments ends with an exception.
C11_NeverFails ==
    \A p \in Procs :
        (days[p] >= 0 /\ miles[p] >= 0 /\ receipts[p] >= 0)
        => pc[p] # "raised"

\* the command line has three arguments and each of them converts
ThreeArgs == Len(argv) = 3
Converts ==
    /\ ThreeArgs
    /\ ~ParseInt(argv[1]).err
    /\ ~ParseFloat(argv[2], 1).err
    /\ ~ParseFloat(argv[3], 3).err

\* the numbers the arguments spell: days, miles in tenths, receipts in mills
ArgDays == ParseInt(argv[1]).val
ArgMiles == ParseFloat(argv[2], 1).val
ArgReceipts == ParseFloat(argv[3], 3).val

\* main has ended
Exited == mpc = "exited"

\* C12 Range check at the boundary: when the three arguments parse as
\* numbers and days < 1, miles < 0 or receipts < 0, main does not invoke
\* calculate, and ends with exit code 1.
C12_OutOfRangeRejected ==
    (Converts /\ (ArgDays < 1 \/ ArgMiles < 0 \/ ArgReceipts < 0))
    => /\ calls = 0
       /\ pc[1] = "idle"
       /\ Exited => exit_code = 1

\* C13 Failure path: when the command line has not three arguments, or an
\* argument does not convert, main prints nothing to standard output, and
\* it ends with one message on standard error and exit code 1.
C13_FailureOnStderr ==
    ~Converts
    => /\ stdout = <<>>
       /\ Exited => (Len(stderr) = 1 /\ exit_code = 1)

\* the one line of a successful run: the returned value with two decimals
ResultLine == FormatResult(returned[1])
IsNumberLine(l) == l.kind = "number" /\ l.frac \in 0..99

\* C14 Success path: when the command line has three arguments and all of
\* them convert, main invokes calculate once, prints nothing to standard
\* error, takes neither except clause, and ends with exit code 0 after one
\* line on standard output, the returned value with two decimal digits.
C14_SuccessPath ==
    Converts
    => /\ calls <= 1
       /\ stderr = <<>>
       /\ mpc \notin {"value_error", "error"}
       /\ Exited => /\ exit_code = 0
                    /\ calls = 1
                    /\ stdout = <<ResultLine>>
                    /\ IsNumberLine(ResultLine)

\* C15 No partial results: a run of main ends either with exit code 0, the
\* result printed, or with another exit code, calculate never invoked and
\* no result line printed.
C15_NoPartialResults ==
    Exited
    => \/ /\ exit_code = 0
          /\ calls = 1
          /\ stdout = <<ResultLine>>
       \/ /\ exit_code # 0
          /\ calls = 0
          /\ pc[1] = "idle"
          /\ \A i \in 1..Len(stdout) : stdout[i].kind # "number"

\* trunc(x) for x in tenths: the whole miles, towards zero, in tenths
SpecTrunc(x) == IF x >= 0 THEN x - (x % 10) ELSE x + ((-x) % 10)

\* the amount of a request before rounding, by Stage A to Stage E
SpecAmount(d, m, r) ==
    LET ks == SpecMatching(d, m, r)
        scaled == SpecTimes(SpecBase(d, m, r), ks \ {6})
    IN  IF 6 \in ks THEN Add(scaled, Dollars(30)) ELSE scaled

\* C16 Mileage truncation: main passes days, receipts and the miles argument
\* cut to whole miles, towards zero, to calculate, and the line it prints
\* is the value of calculate(days, trunc(miles), receipts), every condition
\* on miles taken on the cut value; 999.9 miles are 999, below 1000.
C16_MilesTruncated ==
    Converts
    => LET d == ArgDays
           m == SpecTrunc(ArgMiles)
           r == ArgReceipts
       IN  /\ calls = 1 => (days[1] = d /\ miles[1] = m /\ receipts[1] = r)
           /\ (calls = 1 /\ ArgMiles = 9999)
              => (miles[1] = 9990 /\ miles[1] < 10000)
           /\ stdout # <<>>
              => stdout = <<FormatResult(
                              SpecClamp(SpecRound2(SpecAmount(d, m, r))))>>

\* main has printed the result of a 12-day request with 999.9 miles, which
\* the factor 0.85 of 1000 miles and more has not met; and of one with
\* -0.5 miles, passed as 0
C16_Witness ==
    /\ Exited /\ exit_code = 0 /\ stdout = <<ResultLine>>
    /\ ArgDays = 12
    /\ ArgMiles = 9999 /\ miles[1] = 9990
    /\ ~SpecQuirked(ArgReceipts)
    /\ amount[1] = SpecBase(12, 9990, ArgReceipts)

\* main has printed the result for -0.5 miles, passed as 0 miles
C16_WitnessNegative ==
    Exited /\ exit_code = 0 /\ ArgMiles = -5 /\ miles[1] = 0

\* a call is inside calculate, between its first statement and its return
Inside(p) == pc[p] \notin {"idle", "done", "raised"}

\* C17 Concurrency: of any calls that run at the same time on one shared
\* calculator, with their steps interleaved in any order, each returns the
\* value it returns when run alone, the value of Stage A to Stage F for its
\* own arguments; and no call changes the attributes of the calculator, the
\* only state the calls share.
C17_Isolation ==
    /\ \A i \in Insts : calc[i] = NewCalculator
    /\ \A p \in Procs :
           Returned(p) =>
               returned[p] =
                   SpecClamp(SpecRound2(
                       SpecAmount(days[p], miles[p], receipts[p])))

\* a call has returned while another call with other arguments, begun on
\* the same calculator before the first one ended, is past its base amount
C17_Witness ==
    /\ Returned(1) /\ Inside(2) /\ pc[2] = "two_week"
    /\ self_[1] = self_[2]
    /\ days[1] # days[2] /\ miles[1] # miles[2] /\ receipts[1] # receipts[2]
    /\ returned[1] # Zero

\* the statements a call at position at has before it at most: the quirk
\* test, two caps, the base, six adjustment tests, round and the clamp
StepsLeft(at) ==
    CASE at = "detect" -> 12
      [] at = "cap_receipts" -> 11
      [] at = "cap_miles" -> 10
      [] at = "base" -> 9
      [] at = "branch" -> 8
      [] at = "long_trip" -> 7
      [] at = "short_trip" -> 6
      [] at = "mid_trip" -> 5
      [] at = "two_week" -> 4
      [] at = "bonus" -> 3
      [] at = "round" -> 2
      [] at = "return" -> 1
      [] OTHER -> 0

\* C18 Termination: a call of calculate ends after at most twelve steps,
\* whatever its arguments: every step of the program is the begin of a
\* call, the end of one, or a step of a call that lowers the number of the
\* statements the call has before it (no statement is run twice: no loop,
\* no recursion), and that number is twelve at the begin of a call.
C18_Terminates ==
    [][\E p \in Procs :
           \/ pc[p] = "idle" /\ pc'[p] = "detect" /\ StepsLeft(pc'[p]) = 12
           \/ pc[p] \in {"done", "raised"} /\ pc'[p] = "idle"
           \/ Inside(p) /\ StepsLeft(pc'[p]) < StepsLeft(pc[p])]_vars

\* a call that went through all six adjustment tests, three of them met,
\* has returned; its twelve steps lie behind it
C18_Witness ==
    /\ Returned(1) /\ StepsLeft(pc[1]) = 0
    /\ days[1] = 13 /\ miles[1] = 26000 /\ receipts[1] = 1000000
    /\ SpecMatching(13, 26000, 1000000) = {2, 5, 6}
    /\ amount[1] # SpecBase(13, 26000, 1000000)

(***************************************************************************)
(* Properties of single requests.                                          *)
(***************************************************************************)

C20_QuirkScenario ==
    \A p \in Procs :
        (days[p] = 2 /\ miles[p] = 500 /\ receipts[p] = 100490)
        => LET base ==
                   Add(Add(Cents(26671), MulSmall(Cents(5005), 2)),
                       Add(MulDec(Dollars(50), 4456, 10000),
                           MulDec(Cents(10049), 3829, 10000)))
               scaled == MulDec(base, 457, 1000)
           IN  /\ pc[p] # "raised"
               /\ Adjusted(p) => amount[p] = scaled
               /\ Returned(p) =>
                      /\ returned[p] = Cents(19540)
                      /\ returned[p] = SpecRound2(scaled)

\* calculate(2, 50, 100.49) has returned, its amount the base times 0.457
C20_Witness ==
    /\ Returned(1) /\ days[1] = 2 /\ miles[1] = 500 /\ receipts[1] = 100490
    /\ has_rounding_bug[1]
    /\ amount[1] = MulDec(SpecBase(2, 500, 100490), 457, 1000)
    /\ returned[1] = Cents(19540)

\* C21 Efficiency-bonus scenario: calculate(2, 400, 0) = 575.05: the base is
\* 545.05, miles per day are 200, within [180, 220], no multiplier of rules
\* 1-5 matches, and the flat 30.0 is added.
C21_BonusScenario ==
    \A p \in Procs :
        (days[p] = 2 /\ miles[p] = 4000 /\ receipts[p] = 0)
        => /\ pc[p] # "raised"
           /\ SpecMatching(2, 4000, 0) = {6}
           /\ pc[p] \in {"long_trip", "short_trip", "mid_trip", "two_week",
                         "bonus"}
              => amount[p] = Cents(54505)
           /\ Adjusted(p) => amount[p] = Add(Cents(54505), Dollars(30))
           /\ Returned(p) => returned[p] = Cents(57505)

\* calculate(2, 400, 0) has returned 575.05, the base plus 30.0
C21_Witness ==
    /\ Returned(1) /\ days[1] = 2 /\ miles[1] = 4000 /\ receipts[1] = 0
    /\ ~has_rounding_bug[1]
    /\ amount[1] = Add(SpecBase(2, 4000, 0), Dollars(30))
    /\ returned[1] = Cents(57505)

\* C22 Conditions on the original inputs: the base is computed from the
\* capped miles and receipts, and the conditions of rules 2-6 are taken on
\* the miles and receipts as passed: the amount of a call that is not
\* quirked is the Stage C base times the multipliers of the rules that the
\* passed values meet, plus 30.0 when the passed miles per day lie in
\* [180, 220].  calculate(12, 1000, 0) counts 850 miles in its base, meets
\* rule 2 with its 1000 miles, and returns round2(0.85 * base) = 1059.16.
C22_RawConditions ==
    \A p \in Procs :
        /\ (Adjusted(p) /\ ~SpecQuirked(receipts[p]))
           => amount[p] = SpecAmount(days[p], miles[p], receipts[p])
        /\ (days[p] = 12 /\ miles[p] = 10000 /\ receipts[p] = 0)
           => /\ pc[p] \in {"base", "branch"}
                 => capped_miles[p] = Dollars(850)
              /\ Adjusted(p)
                 => amount[p] = MulDec(SpecBase(12, 10000, 0), 85, 100)
              /\ Returned(p)
                 => /\ returned[p] = Cents(105916)
                    /\ returned[p] =
                           SpecRound2(MulDec(SpecBase(12, 10000, 0),
                                             85, 100))

\* calculate(12, 1000, 0) has returned: 850 capped miles, below the 1000 of
\* rule 2, and the factor 0.85 applied
C22_Witness ==
    /\ Returned(1) /\ days[1] = 12 /\ miles[1] = 10000 /\ receipts[1] = 0
    /\ capped_miles[1] = Dollars(850)
    /\ Less(capped_miles[1], Dollars(1000))
    /\ amount[1] = MulDec(SpecBase(12, 10000, 0), 85, 100)
    /\ returned[1] = Cents(105916)

\* the cents of r mills rounded to the nearest cent (the requests hold no
\* half cent), and the cents of r mills cut after the second decimal
SpecRoundedCents(r) == (((IF r < 0 THEN -r ELSE r) + 5) \div 10) % 100
SpecCutCents(r) == ((IF r < 0 THEN -r ELSE r) \div 10) % 100

\* the quirk flag of a call is set
Detected(p) == pc[p] \notin {"idle", "detect"}

\* C23 Quirk detection: the quirk flag is true exactly when receipts,
\* rounded to two decimals, have the cents 49 or 99.  It is taken from the
\* receipts as passed, before the cap: receipts above 1800 that end in .49
\* or .99 are quirked though the capped receipts have other cents.
\* Receipts with more decimals go by their rounded cents, not by the cents
\* cut off: 100.486 is quirked, 100.496 is not.
C23_QuirkDetection ==
    \A p \in Procs :
        Detected(p) =>
            /\ has_rounding_bug[p]
                   = (SpecRoundedCents(receipts[p]) \in {49, 99})
            /\ receipts[p] = 100486 => has_rounding_bug[p]
            /\ receipts[p] = 100496 => ~has_rounding_bug[p]
            /\ (receipts[p] = 1800490 /\ pc[p] # "cap_receipts")
               => /\ has_rounding_bug[p]
                  /\ FloorAt(capped_receipts[p], 2) % 100 \notin {49, 99}
            /\ (has_rounding_bug[p] /\ Adjusted(p))
               => amount[p] =
                      MulDec(SpecBase(days[p], miles[p], receipts[p]),
                             457, 1000)

\* a call with receipts of 1800.49 has returned: quirked, the capped
\* receipts 1800.0735
C23_Witness ==
    /\ Returned(1) /\ receipts[1] = 1800490 /\ has_rounding_bug[1]
    /\ FloorAt(capped_receipts[1], 2) % 100 = 7
    /\ days[1] >= 1 /\ ~IsZero(returned[1])

\* calls with receipts of 100.486 (cut cents 48) and of 100.496 (cut cents
\* 49) are past the quirk test
C23_WitnessRounded ==
    /\ Detected(1) /\ receipts[1] \in {100486, 100496}
    /\ has_rounding_bug[1] # (SpecCutCents(receipts[1]) \in {49, 99})

\* the multipliers among statements 1..5 that apply to a request
Multipliers(d, m, r) == {k \in 1..5 : Applies(k, d, m, r)}

\* the orders of the statements in S: every sequence that holds each once
RECURSIVE Orders(_)
Orders(S) ==
    IF S = {} THEN {<<>>}
    ELSE UNION {{<<k>> \o s : s \in Orders(S \ {k})} : k \in S}

\* statement k in exact arithmetic, and a sequence of statements
ExactStatement(k, a, d, m, r) ==
    IF ~Applies(k, d, m, r) THEN a
    ELSE IF k = 6 THEN Add(a, Dollars(30))
    ELSE MulDec(a, Literal(k), 100)

RECURSIVE ExactStatements(_, _, _, _, _, _)
ExactStatements(order, i, a, d, m, r) ==
    IF i > Len(order) THEN a
    ELSE ExactStatements(order, i + 1,
                         ExactStatement(order[i], a, d, m, r), d, m, r)

\* a request inside the documented range that is not quirked has its
\* amount and is about to round it
Unquirked(p) ==
    /\ pc[p] = "round" /\ ~has_rounding_bug[p]
    /\ days[p] >= 1 /\ miles[p] >= 0 /\ receipts[p] >= 0

\* amount at line 81 as a double, the statements in the given order
FloatIn(p, order) ==
    FloatAmount(calc[self_[p]], days[p], miles[p], receipts[p], order)

\* the exact amount is a decimal half cent
HalfCent(a) == RestAt(a, 2) = UnitAt(5, 3)

\* C24 as stated: for every request that is not quirked, the matching
\* multipliers of rules 1-5 in any order, the +30 last, give the same
\* unrounded amount as the order 1,2,3,4,5,6 of calculate, and the +30
\* before a matching multiplier gives another amount.  The amount of
\* calculate is a double.
C24_AsStated ==
    \A p \in Procs :
        Unquirked(p) =>
            LET ks == Multipliers(days[p], miles[p], receipts[p])
            IN  /\ \A s \in Orders(ks) :
                       FloatIn(p, s \o <<6>>) = FloatIn(p, CodeOrder)
                /\ (ks # {} /\ Applies(6, days[p], miles[p], receipts[p]))
                   => \A s \in Orders(ks \cup {6}) :
                          s[Len(s)] # 6
                          => FloatIn(p, s) # FloatIn(p, CodeOrder)

\* C24 Commutativity of the multiplicative adjustments: for every request
\* that is not quirked, the matching multipliers of rules 1-5 in any order,
\* the +30 last, give in exact arithmetic the amount of the order
\* 1,2,3,4,5,6, and as doubles amounts that round to the same cents, the
\* cents calculate returns (an exact half cent apart); the doubles
\* themselves can differ in their last bits.  The +30 before a matching
\* multiplier gives another amount, exactly and as a double.
C24_Commutativity ==
    \A p \in Procs :
        Unquirked(p) =>
            LET d == days[p]
                m == miles[p]
                r == receipts[p]
                ks == Multipliers(d, m, r)
            IN  /\ \A s \in Orders(ks) :
                       ExactStatements(s \o <<6>>, 1, SpecBase(d, m, r),
                                       d, m, r) = amount[p]
                /\ (Cardinality(ks) > 1 /\ ~HalfCent(amount[p]))
                   => \A s \in Orders(ks) :
                          UnitAt(FRound2(FloatIn(p, s \o <<6>>)), 2)
                              = RoundAmount(amount[p], fp_half_up)
                /\ (ks # {} /\ Applies(6, d, m, r))
                   => \A s \in Orders(ks \cup {6}) :
                          s[Len(s)] # 6
                          => /\ ExactStatements(s, 1, SpecBase(d, m, r),
                                                d, m, r) # amount[p]
                             /\ FloatIn(p, s) # FloatIn(p, CodeOrder)

\* 13 days, 1000 miles, receipts of 1500: rules 2 and 5 apply; the double
\* of the order 5,2 is not the double of the order 2,5, both round to
\* 1907.88
C24_Witness ==
    /\ Unquirked(1) /\ days[1] = 13 /\ miles[1] = 10000
    /\ receipts[1] = 1500000
    /\ Multipliers(13, 10000, 1500000) = {2, 5}
    /\ FloatIn(1, <<5, 2, 6>>) # FloatIn(1, CodeOrder)
    /\ FRound2(FloatIn(1, <<5, 2, 6>>)) = 190788
    /\ FRound2(FloatIn(1, CodeOrder)) = 190788
    /\ amount[1] = MulDec(MulDec(SpecBase(13, 10000, 1500000), 120, 100),
                          85, 100)

\* 5 days, 1000 miles: rule 1 and the +30 apply; the +30 first gives
\* another amount
C24_WitnessBonus ==
    /\ Unquirked(1) /\ days[1] = 5 /\ miles[1] = 10000 /\ receipts[1] = 0
    /\ Multipliers(5, 10000, 0) = {1}
    /\ Applies(6, 5, 10000, 0)
    /\ FRound2(FloatIn(1, <<6, 1>>)) # FRound2(FloatIn(1, CodeOrder))

\* test_specific_cases: the recorded cases (days, miles in tenths, receipts
\* in mills, expected in cents)
test_cases ==
    {<<3, 930, 1420, 36451>>,
     <<1, 550, 3600, 12606>>,
     <<1, 470, 17970, 12891>>,
     <<5, 1300, 306900, 57410>>,
     <<5, 1730, 1337900, 144396>>}

\* C25 The engine reproduces the recorded legacy outputs: for every case of
\* test_specific_cases calculate returns the expected value, the printed
\* error being 0: 364.51 for (3, 93, 1.42), 126.06 for (1, 55, 3.6),
\* 128.91 for (1, 47, 17.97), 574.10 for (5, 130, 306.90) and 1443.96 for
\* (5, 173, 1337.90).
C25_ReproducesSamples ==
    \A p \in Procs :
        Returned(p) =>
            \A t \in test_cases :
                (days[p] = t[1] /\ miles[p] = t[2] /\ receipts[p] = t[3])
                => returned[p] = Cents(t[4])

\* what calculate returns for the recorded cases: 458.84, 394.04, 396.27,
\* 637.01 and 1017.82
C25_Returned ==
    \A p \in Procs :
        Returned(p) =>
            /\ (days[p] = 3 /\ miles[p] = 930 /\ receipts[p] = 1420)
               => returned[p] = Cents(45884)
            /\ (days[p] = 1 /\ miles[p] = 550 /\ receipts[p] = 3600)
               => returned[p] = Cents(39404)
            /\ (days[p] = 1 /\ miles[p] = 470 /\ receipts[p] = 17970)
               => returned[p] = Cents(39627)
            /\ (days[p] = 5 /\ miles[p] = 1300 /\ receipts[p] = 306900)
               => returned[p] = Cents(63701)
            /\ (days[p] = 5 /\ miles[p] = 1730 /\ receipts[p] = 1337900)
               => returned[p] = Cents(101782)

\* a recorded case has returned
C25_Witness ==
    /\ Returned(1)
    /\ <<days[1], miles[1], receipts[1]>> \in {<<t[1], t[2], t[3]>> : t \in test_cases}

\* C26 Positivity inside the range: for days >= 1, miles >= 0 and
\* receipts >= 0 the value calculate returns is positive and at least
\* 144.76 = round2(0.457 * (266.71 + 50.05)); max(0, .) returns its argument
\* there, and changes the result only for requests outside the range.
C26_PositiveInRange ==
    \A p \in Procs :
        Returned(p) =>
            /\ (days[p] >= 1 /\ miles[p] >= 0 /\ receipts[p] >= 0)
               => /\ Less(Zero, returned[p])
                  /\ LessEq(Cents(14476), returned[p])
                  /\ returned[p] = result[p]
            /\ returned[p] # result[p]
               => (days[p] < 1 \/ miles[p] < 0 \/ receipts[p] < 0)
            /\ SpecRound2(MulDec(SpecBase(1, 0, 0), 457, 1000)) = Cents(14476)

\* the least request of the range that is quirked has returned: 1 day, no
\* miles, receipts of 0.49, 144.85 or 144.84
C26_Witness ==
    /\ Returned(1) /\ days[1] = 1 /\ miles[1] = 0 /\ receipts[1] = 490
    /\ has_rounding_bug[1]
    /\ returned[1] \in {Cents(14484), Cents(14485)}
    /\ returned[1] = result[1]

\* outside the range the clamp decides: -14 days
C26_WitnessClamped ==
    /\ Returned(1) /\ days[1] < 0 /\ IsNeg(result[1]) /\ IsZero(returned[1])

\* the multiplicative rules whose conditions a request meets, quirked or not
SpecMultipliers(d, m, r) == {k \in 1..5 : SpecRule(k, d, m, r)}

\* the net multipliers, in thousandths
NetMultipliers == {457, 850, 920, 1000, 1020, 1150, 1250}

\* the +30 a request receives
SpecBonus(d, m, r) ==
    IF ~SpecQuirked(r) /\ SpecRule(6, d, m, r) THEN Dollars(30) ELSE Zero

\* C27 Exclusions among the rules: for every input, rules 1, 3 and 4 each
\* exclude every other multiplicative rule, and rule 5 fires only together
\* with rule 2; the net multiplier on the base is one of 0.457, 0.85, 0.92,
\* 1, 1.02 (= 0.85 * 1.20), 1.15 and 1.25, never 1.20 alone.  Rule 3 and
\* the +30 never apply to the same request.
C27_RuleExclusions ==
    \A p \in Procs :
        pc[p] # "idle" =>
            LET d == days[p]
                m == miles[p]
                r == receipts[p]
                ks == SpecMultipliers(d, m, r)
                base == SpecBase(d, m, r)
            IN  /\ ks \in {{}, {1}, {2}, {3}, {4}, {2, 5}}
                /\ ~(SpecRule(3, d, m, r) /\ SpecRule(6, d, m, r))
                /\ Adjusted(p)
                   => /\ \E f \in NetMultipliers :
                             amount[p] = Add(MulDec(base, f, 1000),
                                             SpecBonus(d, m, r))
                      /\ ~IsZero(base)
                         => amount[p] # Add(MulDec(base, 1200, 1000),
                                            SpecBonus(d, m, r))
                      /\ (5 \in ks /\ ~SpecQuirked(r))
                         => amount[p] = Add(MulDec(base, 1020, 1000),
                                            SpecBonus(d, m, r))

\* 13 days, 1000 miles, receipts of 1000: rules 2 and 5 together, the
\* amount 1.02 times the base
C27_Witness ==
    /\ Adjusted(1) /\ days[1] = 13 /\ miles[1] = 10000
    /\ receipts[1] = 1000000
    /\ SpecMultipliers(13, 10000, 1000000) = {2, 5}
    /\ amount[1] = MulDec(SpecBase(13, 10000, 1000000), 1020, 1000)

\* C28 Frame: no step of calculate writes an attribute of a calculator:
\* after any sequence of calls intercept, coef_days, coef_miles,
\* coef_receipts and rounding_bug_factor are 266.71, 50.05, 0.4456, 0.3829
\* and 0.457, the values of __init__; and from its first statement to its
\* end a call leaves days, miles and receipts as they were passed.
C28_Frame ==
    [][/\ calc' = calc
       /\ \A i \in Insts :
              /\ calc[i].intercept = 26671
              /\ calc[i].coef_days = 5005
              /\ calc[i].coef_miles = 4456
              /\ calc[i].coef_receipts = 3829
              /\ calc[i].rounding_bug_factor = 457
       /\ \A p \in Procs :
              (pc[p] # "idle" /\ pc'[p] # "idle")
              => /\ days'[p] = days[p]
                 /\ miles'[p] = miles[p]
                 /\ receipts'[p] = receipts[p]
                 /\ self_'[p] = self_[p]]_vars

\* two calls on the same calculator have returned, one after the other,
\* with capped miles and capped receipts; the arguments are the ones
\* passed and the attributes those of __init__
C28_Witness ==
    /\ Returned(1) /\ Returned(2) /\ self_[1] = self_[2]
    /\ miles[1] = 11000 /\ capped_miles[1] = Dollars(875)
    /\ receipts[2] = 2000990 /\ Less(capped_receipts[2], Dollars(1831))
    /\ calc[self_[1]] = NewCalculator

\* C29 The quirk boundary: for days >= 1, miles >= 0 and receipts r >= 0.49
\* whose cents are 49 or 99, calculate(days, miles, r) is smaller than
\* calculate(days, miles, r - 0.01) and smaller than
\* calculate(days, miles, r + 0.01): the result is not monotone in receipts.
C29_QuirkBoundary ==
    \A p, q \in Procs :
        (/\ Returned(p) /\ Returned(q)
         /\ days[p] >= 1 /\ miles[p] >= 0 /\ receipts[p] >= 490
         /\ SpecRoundedCents(receipts[p]) \in {49, 99}
         /\ days[q] = days[p] /\ miles[q] = miles[p]
         /\ receipts[q] \in {receipts[p] - 10, receipts[p] + 10})
        => /\ Less(returned[p], returned[q])
           /\ has_rounding_bug[p] /\ ~has_rounding_bug[q]

\* calls with receipts of 1800.49 and of 1800.48 have returned, the first
\* the smaller value
C29_Witness ==
    /\ Returned(1) /\ Returned(2)
    /\ days[1] = 13 /\ days[2] = 13 /\ miles[1] = 12000 /\ miles[2] = 12000
    /\ receipts[1] = 1800490 /\ receipts[2] = 1800480
    /\ Less(returned[1], returned[2])

\* calls with receipts of 0.49 and of 0.50 have returned, the first the
\* smaller value
C29_WitnessAbove ==
    /\ Returned(1) /\ Returned(2)
    /\ days[1] = 1 /\ days[2] = 1 /\ miles[1] = 0 /\ miles[2] = 0
    /\ receipts[1] = 490 /\ receipts[2] = 500
    /\ Less(returned[1], returned[2])

\* a call has its capped values and its base amount
Based(p) == pc[p] \notin {"idle", "detect", "cap_receipts", "cap_miles",
                          "base", "raised"}

\* the base amount of a call, from the values line 43 reads
BaseOf(p) ==
    LinearAmount(calc[self_[p]], days[p], capped_miles[p],
                 capped_receipts[p])

\* b - a is positive and at most the n units of 10^-nd
RisesWithin(a, b, n, nd) == Less(a, b) /\ LessEq(Sub(b, a), UnitAt(n, nd))

=============================================================================
